---- MODULE Spec2Model ----
(***************************************************************************)
(* A model of create_icon.py: the script that draws the RayLink app icon,  *)
(* saves it as AppIcon.png, writes Contents.json, and falls back to an     *)
(* embedded 1x1 PNG when an ImportError reaches the __main__ guard.        *)
(*                                                                         *)
(* Two specifications share the variables:                                 *)
(*   SpecRun   the control flow of a run of the script, its exceptions and *)
(*             the two output files (the drawing is one step);             *)
(*   SpecDraw  the drawing done by create_app_icon, lines 10-60, call by   *)
(*             call.                                                       *)
(***************************************************************************)
EXTENDS Integers, Sequences, FiniteSets, TLC

VARIABLES
    pc,            \* SpecRun: the line the run is at, or "done" / "crashed"
    pilInstalled,  \* whether `from PIL import ...` can succeed
    iconFile,      \* content of icon_path (AppIcon.png)
    metaFile,      \* content of contents_path (Contents.json)
    iconBefore,    \* iconFile when the current run started
    metaBefore,    \* metaFile when the current run started
    trace,         \* the lines the current run has executed, in order
    exc,           \* the exception the current run raised, if any
    png_data,      \* the local of the fallback branch
    runs,          \* number of runs started
    metaOfRun,     \* metaFile at the end of each successful run so far
    metaAtExcept,  \* metaFile when the except clause was entered
    dpc,           \* SpecDraw: position inside create_app_icon
    y,             \* loop variable of the gradient loop
    canvas,        \* img, row by row
    lastRect,      \* the rectangle the last draw.rectangle call was given
    i,             \* loop variable of the overlay loop
    ellipses,      \* the draw.ellipse calls made so far
    bbox,          \* result of draw.textbbox
    pos,           \* (x, y) of the text
    offset,        \* loop variable of the glow loop
    texts          \* the draw.text calls made so far

runVars  == <<pc, pilInstalled, iconFile, metaFile, iconBefore, metaBefore,
              trace, exc, png_data, runs, metaOfRun, metaAtExcept>>
drawVars == <<dpc, y, canvas, lastRect, i, ellipses, bbox, pos, offset, texts>>
vars     == <<runVars, drawVars>>

\* ------------------------------------------------------------------------
\* Bounds
\* ------------------------------------------------------------------------
MaxRuns == 2
\* Largest left / top offset of the measured bounding box.
MaxBearing == 2
\* Largest width / height of the measured bounding box.
MaxGlyph == 11

\* ------------------------------------------------------------------------
\* Program constants
\* ------------------------------------------------------------------------
size == 1024

\* The base64 literal of line 99, one character per element.
PNG_B64 == <<
    "i", "V", "B", "O", "R", "w", "0", "K", "G", "g", "o", "A", "A", "A", "A", "N",
    "S", "U", "h", "E", "U", "g", "A", "A", "A", "A", "E", "A", "A", "A", "A", "B",
    "C", "A", "Y", "A", "A", "A", "A", "f", "F", "c", "S", "J", "A", "A", "A", "A",
    "D", "U", "l", "E", "Q", "V", "R", "4", "2", "m", "N", "k", "Y", "P", "h", "f",
    "D", "w", "A", "C", "h", "w", "G", "A", "6", "0", "e", "6", "k", "g", "A", "A",
    "A", "A", "B", "J", "R", "U", "5", "E", "r", "k", "J", "g", "g", "g", "=", "=" >>

\* ------------------------------------------------------------------------
\* base64.b64decode (line 98)
\* ------------------------------------------------------------------------
B64Alphabet == <<
    "A", "B", "C", "D", "E", "F", "G", "H", "I", "J", "K", "L", "M", "N", "O", "P",
    "Q", "R", "S", "T", "U", "V", "W", "X", "Y", "Z", "a", "b", "c", "d", "e", "f",
    "g", "h", "i", "j", "k", "l", "m", "n", "o", "p", "q", "r", "s", "t", "u", "v",
    "w", "x", "y", "z", "0", "1", "2", "3", "4", "5", "6", "7", "8", "9", "+", "/" >>

\* The 6-bit value of a base64 digit.
B64Value(c) == (CHOOSE k \in 1..64 : B64Alphabet[k] = c) - 1

\* The bytes of one group of four characters; "=" padding shortens the group.
B64QuadDropPadded(q) ==
    IF q[3] = "=" \/ q[4] = "="
    THEN << >>
    ELSE << (B64Value(q[1]) * 4 + B64Value(q[2]) \div 16) % 256,
            ((B64Value(q[2]) % 16) * 16 + B64Value(q[3]) \div 4) % 256,
            ((B64Value(q[3]) % 4) * 64 + B64Value(q[4])) % 256 >>
B64Quad(q) ==
    LET v1 == B64Value(q[1])
        v2 == B64Value(q[2])
    IN  IF q[3] = "="
        THEN << (v1 * 4 + v2 \div 16) % 256 >>
        ELSE LET v3 == B64Value(q[3])
             IN  IF q[4] = "="
                 THEN << (v1 * 4 + v2 \div 16) % 256,
                         ((v2 % 16) * 16 + v3 \div 4) % 256 >>
                 ELSE LET v4 == B64Value(q[4])
                      IN  << (v1 * 4 + v2 \div 16) % 256,
                             ((v2 % 16) * 16 + v3 \div 4) % 256,
                             ((v3 % 4) * 64 + v4) % 256 >>

RECURSIVE b64decode(_)
b64decode(s) ==
    IF Len(s) < 4 THEN << >>
    ELSE B64Quad(SubSeq(s, 1, 4)) \o b64decode(SubSeq(s, 5, Len(s)))

\* ------------------------------------------------------------------------
\* json.dump(contents, f, indent=2) (lines 69-85)
\* A JSON text is the sequence of the chunks written, where "\n" and " "
\* are the only whitespace chunks.
\* ------------------------------------------------------------------------
JStr(s)   == [t |-> "str", s |-> s]
JInt(n)   == [t |-> "int", n |-> n]
JArr(a)   == [t |-> "arr", items |-> a]
JObj(kv)  == [t |-> "obj", kv |-> kv]

contents ==
    JObj(<< <<"images", JArr(<< JObj(<< <<"filename", JStr("AppIcon.png")>>,
                                        <<"idiom",    JStr("universal")>>,
                                        <<"platform", JStr("ios")>>,
                                        <<"size",     JStr("1024x1024")>> >>) >>)>>,
            <<"info", JObj(<< <<"author",  JStr("xcode")>>,
                              <<"version", JInt(1)>> >>)>> >>)

Digits == <<"0", "1", "2", "3", "4", "5", "6", "7", "8", "9">>

RECURSIVE IntRepr(_)
IntRepr(n) ==
    IF n < 10 THEN << Digits[n + 1] >>
    ELSE IntRepr(n \div 10) \o << Digits[(n % 10) + 1] >>

RECURSIVE Spaces(_)
Spaces(n) == IF n = 0 THEN << >> ELSE <<" ">> \o Spaces(n - 1)

\* newline_indent of json.encoder: a newline and indent * level spaces.
NewlineIndent(indent, level) == <<"\n">> \o Spaces(indent * level)

RECURSIVE JsonEncode(_, _, _), JsonItems(_, _, _, _), JsonPairs(_, _, _, _)
JsonEncode(v, indent, level) ==
    CASE v.t = "str" -> <<"\"", v.s, "\"">>
      [] v.t = "int" -> IntRepr(v.n)
      [] v.t = "arr" ->
            IF v.items = << >> THEN <<"[", "]">>
            ELSE <<"[">> \o JsonItems(v.items, 1, indent, level + 1)
                         \o NewlineIndent(indent, level) \o <<"]">>
      [] v.t = "obj" ->
            IF v.kv = << >> THEN <<"{", "}">>
            ELSE <<"{">> \o JsonPairs(v.kv, 1, indent, level + 1)
                         \o NewlineIndent(indent, level) \o <<"}">>

JsonItems(items, k, indent, level) ==
    IF k > Len(items) THEN << >>
    ELSE (IF k > 1 THEN <<",">> ELSE << >>)
         \o NewlineIndent(indent, level)
         \o JsonEncode(items[k], indent, level)
         \o JsonItems(items, k + 1, indent, level)

JsonPairs(kv, k, indent, level) ==
    IF k > Len(kv) THEN << >>
    ELSE (IF k > 1 THEN <<",">> ELSE << >>)
         \o NewlineIndent(indent, level)
         \o <<"\"", kv[k][1], "\"", ":", " ">>
         \o JsonEncode(kv[k][2], indent, level)
         \o JsonPairs(kv, k + 1, indent, level)

json_dump(obj) == JsonEncode(obj, 2, 0)

\* ------------------------------------------------------------------------
\* Files
\* ------------------------------------------------------------------------
AbsentIcon  == [kind |-> "absent", data |-> << >>]
Bytes(d)    == [kind |-> "bytes",  data |-> d]
\* What img.save(icon_path, "PNG") writes: the PNG encoding of the canvas,
\* kept as its width, height and number of channels.
PngOfCanvas == [kind |-> "png", data |-> <<size, size, 4>>]

AbsentText  == [kind |-> "absent", text |-> << >>]
Text(t)     == [kind |-> "text",   text |-> t]

\* open(path, 'w') and open(path, 'wb') create or truncate the file.
OpenAppend(old)       == old
OpenTruncate(old)     == << >>
\* f.write(data) on a file opened at its start.
WriteAt(cur, data)    == cur \o data

PriorIcons == { AbsentIcon, Bytes(<<1, 2, 3>>), PngOfCanvas }
PriorMetas == { AbsentText, Text(<<"{", "}">>), Text(<<"o", "l", "d", "\n">>) }

\* ------------------------------------------------------------------------
\* Exceptions
\* ------------------------------------------------------------------------
NoExc == [kind |-> "none", at |-> "none"]
Kinds == {"ImportError", "Other"}

\* Line 92: `except ImportError`.
CatchesAny(kind) == kind \in Kinds
Catches(kind) == kind = "ImportError"

\* Lines the __main__ guard's try statement covers (lines 89-91, with the
\* body of create_app_icon called from line 91).
TryLines == {"L90", "L12", "L64", "L65", "L84", "L85", "L86"}

\* lastRect before the first draw.rectangle call.
NoRect == [xy |-> << >>, fill |-> << >>, progress |-> << >>]

\* What a call may do: return, or raise an exception of some class.
Outcomes == {"ok"} \cup Kinds

Executed(line, outcome) == trace' = Append(trace, <<line, outcome>>)

\* An exception raised at `line`: lines 89-92 send it to the handler when the
\* line is inside the try statement and the except clause matches; any other
\* exception ends the run with a traceback.
Raise(kind, line) ==
    /\ exc' = [kind |-> kind, at |-> line]
    /\ pc' = IF line \in TryLines /\ Catches(kind) THEN "L93" ELSE "crashed"

\* A call that only returns or raises (print, the drawing).
Call(line, next) ==
    /\ pc = line
    /\ \E o \in Outcomes :
          /\ Executed(line, o)
          /\ IF o = "ok" THEN pc' = next /\ exc' = exc ELSE Raise(o, line)

\* ------------------------------------------------------------------------
\* SpecRun: a run of the script
\* ------------------------------------------------------------------------
\* Lines 3-5: the module-level imports, outside every try statement.
ImportPIL ==
    /\ pc = "L4"
    /\ IF pilInstalled
       THEN Executed("L4", "ok") /\ pc' = "L90" /\ exc' = exc
       ELSE Executed("L4", "ImportError") /\ Raise("ImportError", "L4")
    /\ UNCHANGED <<pilInstalled, iconFile, metaFile, iconBefore, metaBefore,
                   png_data, runs, metaOfRun, metaAtExcept, drawVars>>

\* Line 90: the import repeated inside the try statement.
ImportInTry ==
    /\ pc = "L90"
    /\ IF pilInstalled
       THEN Executed("L90", "ok") /\ pc' = "L12" /\ exc' = exc
       ELSE Executed("L90", "ImportError") /\ Raise("ImportError", "L90")
    /\ UNCHANGED <<pilInstalled, iconFile, metaFile, iconBefore, metaBefore,
                   png_data, runs, metaOfRun, metaAtExcept, drawVars>>

\* Lines 10-60: the drawing calls of create_app_icon, taken as one step here
\* (SpecDraw takes them one by one).  They touch no file.
Draw ==
    /\ Call("L12", "L64")
    /\ UNCHANGED <<pilInstalled, iconFile, metaFile, iconBefore, metaBefore,
                   png_data, runs, metaOfRun, metaAtExcept, drawVars>>

\* Line 64: img.save(icon_path, "PNG").  A failing save leaves the file as it
\* was (the path cannot be opened) or truncated (the failure came later).
Save ==
    /\ pc = "L64"
    /\ \E o \in Outcomes :
          /\ Executed("L64", o)
          /\ IF o = "ok"
             THEN /\ iconFile' = PngOfCanvas
                  /\ pc' = "L65" /\ exc' = exc
             ELSE /\ iconFile' \in {iconFile, Bytes(OpenTruncate(iconFile.data))}
                  /\ Raise(o, "L64")
    /\ UNCHANGED <<pilInstalled, metaFile, iconBefore, metaBefore,
                   png_data, runs, metaOfRun, metaAtExcept, drawVars>>

\* Line 65: print.
PrintCreated ==
    /\ Call("L65", "L84")
    /\ UNCHANGED <<pilInstalled, iconFile, metaFile, iconBefore, metaBefore,
                   png_data, runs, metaOfRun, metaAtExcept, drawVars>>

\* Line 84: open(contents_path, 'w').
OpenContents ==
    /\ pc = "L84"
    /\ \E o \in Outcomes :
          /\ Executed("L84", o)
          /\ IF o = "ok"
             THEN /\ metaFile' = Text(OpenTruncate(metaFile.text))
                  /\ pc' = "L85" /\ exc' = exc
             ELSE /\ metaFile' = metaFile
                  /\ Raise(o, "L84")
    /\ UNCHANGED <<pilInstalled, iconFile, iconBefore, metaBefore,
                   png_data, runs, metaOfRun, metaAtExcept, drawVars>>

\* Line 85: json.dump(contents, f, indent=2), and the close of the with
\* statement.  A failing dump leaves what was written until then.
DumpContents ==
    /\ pc = "L85"
    /\ \E o \in Outcomes :
          /\ Executed("L85", o)
          /\ IF o = "ok"
             THEN /\ metaFile' = Text(WriteAt(metaFile.text, json_dump(contents)))
                  /\ pc' = "L86" /\ exc' = exc
             ELSE /\ \E n \in {0, 1} :
                        metaFile' = Text(WriteAt(metaFile.text,
                                           SubSeq(json_dump(contents), 1, n)))
                  /\ Raise(o, "L85")
    /\ UNCHANGED <<pilInstalled, iconFile, iconBefore, metaBefore,
                   png_data, runs, metaOfRun, metaAtExcept, drawVars>>

\* Line 86: print; create_app_icon returns and the script ends.
PrintUpdated ==
    /\ pc = "L86"
    /\ \E o \in Outcomes :
          /\ Executed("L86", o)
          /\ IF o = "ok"
             THEN /\ pc' = "done" /\ exc' = exc
                  /\ metaOfRun' = Append(metaOfRun, metaFile)
             ELSE /\ Raise(o, "L86")
                  /\ metaOfRun' = metaOfRun
    /\ UNCHANGED <<pilInstalled, iconFile, metaFile, iconBefore, metaBefore,
                   png_data, runs, metaAtExcept, drawVars>>

\* Line 93: the first line of the except clause.
PrintFallback ==
    /\ Call("L93", "L98")
    /\ metaAtExcept' = metaFile
    /\ UNCHANGED <<pilInstalled, iconFile, metaFile, iconBefore, metaBefore,
                   png_data, runs, metaOfRun, drawVars>>

\* Lines 95-100: png_data = base64.b64decode(...).
DecodeFallback ==
    /\ pc = "L98"
    /\ Executed("L98", "ok")
    /\ png_data' = b64decode(PNG_B64)
    /\ pc' = "L103"
    /\ UNCHANGED <<pilInstalled, iconFile, metaFile, iconBefore, metaBefore,
                   exc, runs, metaOfRun, metaAtExcept, drawVars>>

\* Line 103: open(icon_path, 'wb').
OpenIcon ==
    /\ pc = "L103"
    /\ \E o \in Outcomes :
          /\ Executed("L103", o)
          /\ IF o = "ok"
             THEN /\ iconFile' = Bytes(OpenTruncate(iconFile.data))
                  /\ pc' = "L104" /\ exc' = exc
             ELSE /\ iconFile' = iconFile
                  /\ Raise(o, "L103")
    /\ UNCHANGED <<pilInstalled, metaFile, iconBefore, metaBefore,
                   png_data, runs, metaOfRun, metaAtExcept, drawVars>>

\* Line 104: f.write(png_data), and the close of the with statement.
WriteFallback ==
    /\ pc = "L104"
    /\ \E o \in Outcomes :
          /\ Executed("L104", o)
          /\ IF o = "ok"
             THEN /\ iconFile' = Bytes(WriteAt(iconFile.data, png_data))
                  /\ pc' = "L105" /\ exc' = exc
             ELSE /\ iconFile' = iconFile
                  /\ Raise(o, "L104")
    /\ UNCHANGED <<pilInstalled, metaFile, iconBefore, metaBefore,
                   png_data, runs, metaOfRun, metaAtExcept, drawVars>>

\* Line 105: print; the script ends.
PrintPlaceholder ==
    /\ Call("L105", "done")
    /\ UNCHANGED <<pilInstalled, iconFile, metaFile, iconBefore, metaBefore,
                   png_data, runs, metaOfRun, metaAtExcept, drawVars>>

\* The script is run again; the files are as the last run left them.
StartRun ==
    /\ pc \in {"done", "crashed"}
    /\ runs < MaxRuns
    /\ pc' = "L4"
    /\ runs' = runs + 1
    /\ pilInstalled' \in BOOLEAN
    /\ iconBefore' = iconFile
    /\ metaBefore' = metaFile
    /\ trace' = << >>
    /\ exc' = NoExc
    /\ png_data' = << >>
    /\ metaAtExcept' = AbsentText
    /\ UNCHANGED <<iconFile, metaFile, metaOfRun, drawVars>>

DrawIdle ==
    /\ dpc = "idle" /\ y = 0 /\ canvas = << >> /\ lastRect = NoRect
    /\ i = 0 /\ ellipses = << >> /\ bbox = << >> /\ pos = << >>
    /\ offset = 0 /\ texts = << >>

InitRun ==
    /\ pc = "L4"
    /\ pilInstalled \in BOOLEAN
    /\ iconFile \in PriorIcons
    /\ metaFile \in PriorMetas
    /\ iconBefore = iconFile
    /\ metaBefore = metaFile
    /\ trace = << >>
    /\ exc = NoExc
    /\ png_data = << >>
    /\ runs = 1
    /\ metaOfRun = << >>
    /\ metaAtExcept = AbsentText
    /\ DrawIdle

NextRun ==
    \/ ImportPIL \/ ImportInTry \/ Draw \/ Save \/ PrintCreated
    \/ OpenContents \/ DumpContents \/ PrintUpdated
    \/ PrintFallback \/ DecodeFallback \/ OpenIcon \/ WriteFallback
    \/ PrintPlaceholder \/ StartRun

SpecRun == InitRun /\ [][NextRun]_vars

\* ------------------------------------------------------------------------
\* SpecDraw: the drawing of create_app_icon (lines 10-60)
\* ------------------------------------------------------------------------
Min(a, b) == IF a < b THEN a ELSE b
Max(a, b) == IF a > b THEN a ELSE b

\* int(num / den): Python's int() truncates towards zero.
int(num, den) == IF num >= 0 THEN num \div den ELSE -((-num) \div den)

\* A row of the canvas is a sequence of runs <<first column, last column,
\* colour>>; Image.new (line 12) makes every row one transparent run.
NewRow == << <<0, size - 1, <<0, 0, 0, 0>>>> >>
NewImage == [row \in 0..(size - 1) |-> NewRow]

PixelAt(rr, px) ==
    LET n == CHOOSE k \in 1..Len(rr) : rr[k][1] <= px /\ px <= rr[k][2]
    IN  rr[n][3]

\* Columns a..b of a row set to colour c.
PaintRun(rr, a, b, c) ==
    LET lt == SelectSeq(rr, LAMBDA r : r[1] < a)
        rt == SelectSeq(rr, LAMBDA r : r[2] > b)
    IN  [k \in 1..Len(lt) |-> <<lt[k][1], Min(lt[k][2], a - 1), lt[k][3]>>]
        \o << <<a, b, c>> >>
        \o [k \in 1..Len(rt) |-> <<Max(rt[k][1], b + 1), rt[k][2], rt[k][3]>>]

\* The rows a rectangle from row y0 to row y1 covers.  PIL's bounding box is
\* inclusive of both endpoints, and drawing is clipped to the image.
RectRowsExclusive(y0, y1) == Max(y0, 0)..Min(y1 - 1, size - 1)
RectRows(y0, y1) == Max(y0, 0)..Min(y1, size - 1)

\* draw.rectangle([(x0, y0), (x1, y1)], fill=fill) on an image drawn in its
\* own mode: the fill replaces the pixels.
DrawRectangle(cv, xy, fill) ==
    LET a == Max(xy[1], 0)
        b == Min(xy[3], size - 1)
    IN  [row \in DOMAIN cv |->
            IF row \in RectRows(xy[2], xy[4]) /\ a <= b
            THEN PaintRun(cv[row], a, b, fill)
            ELSE cv[row]]

\* Line 18: progress = y / size, kept as <<numerator, denominator>>.
ProgressOffByOne(row) == <<row + 1, size>>
Progress(row) == <<row, size>>

\* Lines 19-21: int(c0 * (1 - progress) + c1 * progress).  size is a power of
\* two, so the double arithmetic of these lines is exact.
Lerp(c0, c1, p) == int(c0 * (p[2] - p[1]) + c1 * p[1], p[2])

RowFill(row) ==
    LET p == Progress(row)
    IN  <<Lerp(100, 40, p), Lerp(50, 100, p), Lerp(255, 255, p), 255>>

\* Line 12: img = Image.new('RGBA', (size, size), (0, 0, 0, 0)).
CreateImage ==
    /\ dpc = "L12"
    /\ canvas' = NewImage
    /\ y' = 0
    /\ dpc' = "L16"
    /\ UNCHANGED <<lastRect, i, ellipses, bbox, pos, offset, texts, runVars>>

\* Lines 16-22: one iteration of `for y in range(size)`.
GradientRow ==
    /\ dpc = "L16"
    /\ LET xy   == <<0, y, size, y + 1>>
           fill == RowFill(y)
       IN  /\ canvas' = DrawRectangle(canvas, xy, fill)
           /\ lastRect' = [xy |-> xy, fill |-> fill, progress |-> Progress(y)]
    /\ IF y + 1 < size
       THEN y' = y + 1 /\ dpc' = "L16" /\ i' = i
       ELSE y' = y /\ dpc' = "L25" /\ i' = size \div 4
    /\ UNCHANGED <<ellipses, bbox, pos, offset, texts, runVars>>

\* Line 26: alpha = int(255 * (1 - i/(size//4)) * 0.3).  The double result and
\* the exact quotient have the same integer part for every i of the loop.
OverlayAlphaInverted(r) == int(255 * r * 3, (size \div 4) * 10)
OverlayAlpha(r) == int(255 * ((size \div 4) - r) * 3, (size \div 4) * 10)

\* Lines 25-33: one iteration of `for i in range(size//4, 0, -1)`; the outline
\* is kept as the call made.
OverlayRing ==
    /\ dpc = "L25"
    /\ ellipses' = Append(ellipses,
          [xy      |-> <<size \div 2 - i, size \div 2 - i,
                         size \div 2 + i, size \div 2 + i>>,
           outline |-> <<255, 255, 255, OverlayAlpha(i)>>,
           width   |-> 2])
    /\ IF i - 1 > 0
       THEN i' = i - 1 /\ dpc' = "L25"
       ELSE i' = i /\ dpc' = "L36"
    /\ UNCHANGED <<y, canvas, lastRect, bbox, pos, offset, texts, runVars>>


\* Lines 51-52: the position of the text from the measured bounding box.
TextX(bb) == (size - (bb[3] - bb[1])) \div 2
TextY(bb) == (size - (bb[4] - bb[2])) \div 2 - (bb[4] - bb[2]) \div 10

\* Lines 36-52: the font is the system font or the default font, and
\* draw.textbbox((0, 0), text, font=font) measures "R" with it: the box
\* (left, top, right, bottom) depends on the font found.
MeasureText ==
    /\ dpc = "L36"
    /\ \E l \in 0..MaxBearing, t \in 0..MaxBearing,
          w \in 1..MaxGlyph, h \in 1..MaxGlyph :
          /\ bbox' = <<l, t, l + w, t + h>>
          /\ pos' = <<TextX(bbox'), TextY(bbox')>>
    /\ offset' = 10
    /\ dpc' = "L55"
    /\ UNCHANGED <<y, canvas, lastRect, i, ellipses, texts, runVars>>

\* Line 56: alpha = int(255 * (1 - offset/10) * 0.5).  The double result and
\* the exact quotient have the same integer part for offset in 1..10.
GlowAlphaFading(o) == int(255 * o * 5, 10 * 10)
GlowAlpha(o) == int(255 * (10 - o) * 5, 10 * 10)

\* Lines 55-57: one iteration of `for offset in range(10, 0, -1)`; the text
\* is kept as the call made.
GlowPass ==
    /\ dpc = "L55"
    /\ texts' = Append(texts,
          [xy |-> pos, text |-> "R", fill |-> <<255, 255, 255, GlowAlpha(offset)>>])
    /\ IF offset - 1 > 0
       THEN offset' = offset - 1 /\ dpc' = "L55"
       ELSE offset' = offset /\ dpc' = "L60"
    /\ UNCHANGED <<y, canvas, lastRect, i, ellipses, bbox, pos, runVars>>

\* Line 60: the main text.
MainText ==
    /\ dpc = "L60"
    /\ texts' = Append(texts,
          [xy |-> pos, text |-> "R", fill |-> <<255, 255, 255, 255>>])
    /\ dpc' = "L64"
    /\ UNCHANGED <<y, canvas, lastRect, i, ellipses, bbox, pos, offset, runVars>>

RunIdle ==
    /\ pc = "idle" /\ pilInstalled = TRUE
    /\ iconFile = AbsentIcon /\ metaFile = AbsentText
    /\ iconBefore = AbsentIcon /\ metaBefore = AbsentText
    /\ trace = << >> /\ exc = NoExc /\ png_data = << >>
    /\ runs = 1 /\ metaOfRun = << >> /\ metaAtExcept = AbsentText

InitDraw ==
    /\ dpc = "L12"
    /\ y = 0
    /\ canvas = << >>
    /\ lastRect = NoRect
    /\ i = 0
    /\ ellipses = << >>
    /\ bbox = << >>
    /\ pos = << >>
    /\ offset = 0
    /\ texts = << >>
    /\ RunIdle

NextDraw ==
    \/ CreateImage \/ GradientRow \/ OverlayRing
    \/ MeasureText \/ GlowPass \/ MainText

SpecDraw == InitDraw /\ [][NextDraw]_vars

\* ------------------------------------------------------------------------
\* Properties of a run
\* ------------------------------------------------------------------------
Ran(line)       == \E k \in 1..Len(trace) : trace[k][1] = line
Succeeded(line) == \E k \in 1..Len(trace) : trace[k] = <<line, "ok">>
RunEnded        == pc \in {"done", "crashed"}
RunSucceeded    == pc = "done" /\ exc = NoExc

IsWhitespace(c) == c \in {"\n", " "}
StripWs(text)   == SelectSeq(text, LAMBDA c : ~IsWhitespace(c))

\* {"images":[{"filename":"AppIcon.png","idiom":"universal","platform":"ios",
\*  "size":"1024x1024"}],"info":{"author":"xcode","version":1}}
CompactDoc == <<
    "{", "\"", "images", "\"", ":", "[",
         "{", "\"", "filename", "\"", ":", "\"", "AppIcon.png", "\"", ",",
              "\"", "idiom", "\"", ":", "\"", "universal", "\"", ",",
              "\"", "platform", "\"", ":", "\"", "ios", "\"", ",",
              "\"", "size", "\"", ":", "\"", "1024x1024", "\"",
         "}", "]", ",",
         "\"", "info", "\"", ":",
         "{", "\"", "author", "\"", ":", "\"", "xcode", "\"", ",",
              "\"", "version", "\"", ":", "1",
         "}",
    "}" >>

\* C1: when PIL cannot be imported, a run of the script ends with AppIcon.png
\* holding exactly the decoded fallback bytes and with Contents.json as it was
\* before the run.
Claim_C1 ==
    (RunEnded /\ ~pilInstalled) =>
        /\ iconFile = Bytes(b64decode(PNG_B64))
        /\ metaFile = metaBefore

\* C2: in every run, whatever step fails and with whatever exception, the
\* fallback bitmap is never written in a run in which the full icon or the
\* metadata was written, and the metadata is written only in a run in which
\* the full icon was saved first and no fallback was taken.
Claim_C2 ==
    /\ ~(Succeeded("L104") /\ (Succeeded("L64") \/ Succeeded("L85")))
    /\ Succeeded("L85") => (Succeeded("L64") /\ ~Ran("L93"))

\* C3: after any successful run Contents.json holds exactly the fixed document,
\* whatever it held before the run, and every successful run leaves the same
\* bytes.
Thm_C3 ==
    RunSucceeded =>
        /\ metaFile.kind = "text"
        /\ StripWs(metaFile.text) = CompactDoc
        /\ \A k \in 1..Len(metaOfRun) : metaOfRun[k] = metaFile

Witness_C3 ==
    /\ RunSucceeded
    /\ Len(metaOfRun) = 2
    /\ metaBefore = metaFile

\* C4 (as amended): the decoded fallback constant is exactly 70 bytes long; in
\* the fallback branch the file written to AppIcon.png is that sequence
\* verbatim, and Contents.json is as it was when the branch was entered.
Thm_C4 ==
    /\ Ran("L93") => metaFile = metaAtExcept
    /\ Succeeded("L104") =>
          /\ iconFile = Bytes(png_data)
          /\ png_data = b64decode(PNG_B64)
          /\ Len(iconFile.data) = 70

Witness_C4 ==
    /\ Succeeded("L104")
    /\ iconBefore = Bytes(<<1, 2, 3>>)
    /\ pc = "done"

\* C4 (as stated): the same with a decoded length of exactly 68 bytes.
Claim_C4 ==
    /\ Ran("L93") => metaFile = metaAtExcept
    /\ Succeeded("L104") =>
          /\ iconFile = Bytes(png_data)
          /\ png_data = b64decode(PNG_B64)
          /\ Len(iconFile.data) = 68

Alpha(colour) == colour[4]
Abs(n) == IF n < 0 THEN -n ELSE n
GlowPasses == 10

\* C6 (as amended): over the successive glow passes each pass uses an alpha no
\* smaller than the pass before it; every pass and the final render use the
\* same position, and the single render of alpha 255 comes after every glow
\* pass.
Thm_C6 ==
    /\ \A k \in 2..Min(Len(texts), GlowPasses) :
          Alpha(texts[k].fill) >= Alpha(texts[k - 1].fill)
    /\ \A k \in 1..Len(texts) : texts[k].xy = pos
    /\ \A k \in 1..Len(texts) : Alpha(texts[k].fill) = 255 <=> k = GlowPasses + 1
    /\ dpc = "L64" => Len(texts) = GlowPasses + 1

Witness_C6 ==
    /\ dpc = "L64"
    /\ Len(texts) = GlowPasses + 1
    /\ Alpha(texts[GlowPasses].fill) > Alpha(texts[1].fill)

\* C6 (as stated): the glow passes are rendered in order of decreasing alpha,
\* each pass with an alpha no greater than the pass before it, all at the same
\* position, the single render of alpha 255 after every glow pass.
Claim_C6 ==
    /\ \A k \in 2..Min(Len(texts), GlowPasses) :
          Alpha(texts[k].fill) <= Alpha(texts[k - 1].fill)
    /\ \A k \in 1..Len(texts) : texts[k].xy = pos
    /\ \A k \in 1..Len(texts) : Alpha(texts[k].fill) = 255 <=> k = GlowPasses + 1
    /\ dpc = "L64" => Len(texts) = GlowPasses + 1

\* C7: for every measured box (l, t, r, b) no larger than the canvas, the text
\* position centres the drawn glyph box horizontally (left and right margins
\* differ by at most 1) and puts its top at the vertically centred position
\* moved up by floor(h / 10).
Claim_C7 ==
    pos # << >> =>
        LET w      == bbox[3] - bbox[1]
            h      == bbox[4] - bbox[2]
            left   == pos[1] + bbox[1]
            right  == size - (pos[1] + bbox[3])
            top    == pos[2] + bbox[2]
        IN  (w <= size /\ h <= size) =>
                /\ Abs(left - right) <= 1
                /\ top = (size - h) \div 2 - h \div 10

Between(v, a, b) == Min(a, b) <= v /\ v <= Max(a, b)

ChannelsInRange(f) ==
    /\ \A c \in 1..4 : f[c] \in 0..255
    /\ Between(f[1], 100, 40)
    /\ Between(f[2], 50, 100)
    /\ Between(f[3], 255, 255)
    /\ f[4] = 255

GradientEnded == dpc \notin {"L12", "L16"}

\* C8 (as amended): the interpolation fraction is y / size, 0 for the top row
\* and (size - 1) / size for the bottom row; the top row is painted
\* (100, 50, 255) and the bottom row (40, 99, 255); for every row each channel
\* is an integer in 0..255 between the two endpoint values, with alpha 255.
Thm_C8 ==
    /\ lastRect # NoRect =>
          LET row == lastRect.xy[2]
          IN  /\ row = 0 => /\ lastRect.progress[1] = 0
                            /\ lastRect.fill = <<100, 50, 255, 255>>
              /\ row = size - 1 => /\ lastRect.progress = <<size - 1, size>>
                                   /\ lastRect.fill = <<40, 99, 255, 255>>
              /\ ChannelsInRange(lastRect.fill)
    /\ GradientEnded =>
          /\ PixelAt(canvas[0], 0) = <<100, 50, 255, 255>>
          /\ PixelAt(canvas[size - 1], 0) = <<40, 99, 255, 255>>

Witness_C8 ==
    /\ GradientEnded
    /\ lastRect.xy[2] = size - 1

\* C8 (as stated): the fraction is 0 for the top row and 1 for the bottom row,
\* the top row is painted (100, 50, 255) and the bottom row (40, 100, 255), and
\* every channel lies between the endpoint values with alpha 255.
Claim_C8 ==
    /\ lastRect # NoRect =>
          LET row == lastRect.xy[2]
          IN  /\ row = 0 => /\ lastRect.progress[1] = 0
                            /\ lastRect.fill = <<100, 50, 255, 255>>
              /\ row = size - 1 => /\ lastRect.progress[1] = lastRect.progress[2]
                                   /\ lastRect.fill = <<40, 100, 255, 255>>
              /\ ChannelsInRange(lastRect.fill)
    /\ GradientEnded =>
          /\ PixelAt(canvas[0], 0) = <<100, 50, 255, 255>>
          /\ PixelAt(canvas[size - 1], 0) = <<40, 100, 255, 255>>

Columns == 0..(size - 1)
Rows    == 0..(size - 1)
RowHolds(cv, row, colour) == \A px \in Columns : PixelAt(cv[row], px) = colour

\* C9 (as amended): iteration y of the gradient loop paints rows y and y + 1
\* (row y + 1 when it exists) over their full width and leaves every other
\* row unchanged; once the loop ends every pixel of row y holds the colour
\* computed for y, for every y in 0 .. size-1.
Thm_C9 ==
    [][dpc = "L16" =>
          /\ \A row \in Rows \ {y, y + 1} : canvas'[row] = canvas[row]
          /\ \A row \in Rows \cap {y, y + 1} : RowHolds(canvas', row, RowFill(y))
          /\ dpc' = "L25" => \A row \in Rows : RowHolds(canvas', row, RowFill(row))
      ]_vars

Witness_C9 ==
    /\ dpc = "L25"
    /\ lastRect.xy = <<0, size - 1, size, size>>
    /\ PixelAt(canvas[size - 1], size - 1) = RowFill(size - 1)

\* C9 (as stated): iteration y paints exactly row y over its full width and
\* leaves every other row unchanged; once the loop ends every pixel of row y
\* holds the colour computed for y.
Claim_C9 ==
    [][dpc = "L16" =>
          /\ \A row \in Rows \ {y} : canvas'[row] = canvas[row]
          /\ RowHolds(canvas', y, RowFill(y))
          /\ dpc' = "L25" => \A row \in Rows : RowHolds(canvas', row, RowFill(row))
      ]_vars

MaxRadius   == size \div 4
Radius(e)   == (e.xy[3] - e.xy[1]) \div 2
OverlayEnded == dpc \notin {"L12", "L16", "L25"}

\* C10: the overlay loop draws one outline for each radius from size/4 down to
\* 1, in strictly decreasing radius order, each centred on the canvas centre,
\* with alpha = floor(255 * (1 - radius/maxRadius) * 0.3): 0 at the outermost
\* radius, never decreasing as the radius shrinks, and within 0..76.
Thm_C10 ==
    /\ \A k \in 1..Len(ellipses) :
          LET e == ellipses[k]
              a == Alpha(e.outline)
          IN  /\ Radius(e) = MaxRadius - k + 1
              /\ e.xy[3] - e.xy[1] = e.xy[4] - e.xy[2]
              /\ e.xy[1] + e.xy[3] = 2 * (size \div 2)
              /\ e.xy[2] + e.xy[4] = 2 * (size \div 2)
              /\ 10 * MaxRadius * a <= 255 * 3 * (MaxRadius - Radius(e))
              /\ 255 * 3 * (MaxRadius - Radius(e)) < 10 * MaxRadius * (a + 1)
              /\ a \in 0..76
              /\ k = 1 => a = 0
              /\ k > 1 => a >= Alpha(ellipses[k - 1].outline)
    /\ OverlayEnded =>
          /\ Len(ellipses) = MaxRadius
          /\ Radius(ellipses[Len(ellipses)]) = 1

Witness_C10 ==
    /\ OverlayEnded
    /\ Len(ellipses) = MaxRadius
    /\ Alpha(ellipses[MaxRadius].outline) = 76

====
